---- MODULE Spec2Model ----
(***************************************************************************)
(* Model of src/commons/actor.rs: actor templates (ActorDef), actors       *)
(* (Actor), their comparison, their attribute lookup, and the              *)
(* authorization check Actor::is_allowed in both builds of the             *)
(* "multi-user" feature.                                                   *)
(*                                                                         *)
(* Option<T> is modelled as a sequence of length 0 (None) or 1 (Some(x)).  *)
(* A HashMap<String, String> is a function from a finite set of strings.   *)
(***************************************************************************)
EXTENDS Naturals, Sequences, FiniteSets, TLC

(* ---------------------------- input domains ---------------------------- *)

\* Largest number of entries of a caller-supplied attribute map.
MaxAttrs == 1

NameTexts == {"anonymous", "alice"}
Roles == {"admin", "readonly"}
AttrKeys == {"role", "team"}
AttrVals(k) == IF k = "role" THEN {"admin"} ELSE {"ops"}
\* Names asked of Actor::attribute.
AttrQueries == AttrKeys \cup {"anything-else"}
AuthPayloads == {"auth1"}
ErrorMsgs == {"bad token", "expired"}
Policies == {"P1", "P2"}
ActionNames == {"read", "delete"}
ResourceNames == {"resource-1"}
\* What the policy evaluator answers when it is asked.
Verdicts == {"OkTrue", "OkFalse", "Err"}

None == <<>>
Some(x) == <<x>>

EmptyMap == [k \in {} |-> "admin"]
AttrMaps ==
    UNION {{m \in [ks -> UNION {AttrVals(k) : k \in AttrKeys}] :
                \A k \in ks : m[k] \in AttrVals(k)} :
           ks \in {s \in SUBSET AttrKeys : Cardinality(s) <= MaxAttrs}}

(* ------------------------------ ActorName ------------------------------ *)

AsStaticStr(s) == [tag |-> "AsStaticStr", s |-> s]
AsString(s) == [tag |-> "AsString", s |-> s]

as_str(name) == name.s

\* #[derive(Eq, PartialEq)] on the enum: same variant and same payload.
ActorNameEq(a, b) == a.tag = b.tag /\ a.s = b.s

(* ------------------------------ Attributes ----------------------------- *)

AttrNone == [tag |-> "None", role |-> None, map |-> EmptyMap]
RoleOnly(role) == [tag |-> "RoleOnly", role |-> Some(role), map |-> EmptyMap]
UserDefined(map) == [tag |-> "UserDefined", role |-> None, map |-> map]

\* #[derive(PartialEq)] on the enum: same variant and same payload.
AttributesEq(a, b) ==
    /\ a.tag = b.tag
    /\ CASE a.tag = "UserDefined" -> a.map = b.map
         [] a.tag = "RoleOnly" -> a.role = b.role
         [] OTHER -> TRUE

as_map(attrs) ==
    CASE attrs.tag = "UserDefined" -> attrs.map
      [] attrs.tag = "RoleOnly" -> [k \in {"role"} |-> attrs.role[1]]
      [] OTHER -> EmptyMap

\* HashMap::get(..).cloned()
MapGet(map, k) == IF k \in DOMAIN map THEN Some(map[k]) ELSE None

(* ------------------------------- ActorDef ------------------------------ *)

ActorDef(name, is_user, attributes, new_auth, auth_error) ==
    [name |-> name, is_user |-> is_user, attributes |-> attributes,
     new_auth |-> new_auth, auth_error |-> auth_error]

with_auth_error(self, error_msg) == [self EXCEPT !.auth_error = Some(error_msg)]

anonymous == ActorDef(AsStaticStr("anonymous"), FALSE, AttrNone, None, None)

system(name, role) == ActorDef(AsStaticStr(name), FALSE, RoleOnly(role), None, None)

user(name, attributes, new_auth) ==
    ActorDef(AsString(name), TRUE, UserDefined(attributes), new_auth, None)

(* -------------------------------- Actor -------------------------------- *)

\* Variants of test_from_def that copy a field the code clears.
test_from_def_keeps_error(repr) ==
    [name |-> repr.name, is_user |-> repr.is_user, attributes |-> repr.attributes,
     new_auth |-> None, auth_error |-> repr.auth_error, policy |-> None]

test_from_def_keeps_auth(repr) ==
    [name |-> repr.name, is_user |-> repr.is_user, attributes |-> repr.attributes,
     new_auth |-> repr.new_auth, auth_error |-> None, policy |-> None]

test_from_def(repr) ==
    [name |-> repr.name, is_user |-> repr.is_user, attributes |-> repr.attributes,
     new_auth |-> None, auth_error |-> None, policy |-> None]

test_from_details(name, attrs) ==
    [name |-> AsString(name), is_user |-> FALSE, attributes |-> UserDefined(attrs),
     new_auth |-> None, auth_error |-> None, policy |-> None]

\* A variant of Actor::new that discards the deferred error of the template.
ActorNew_drops_error(repr, policy) ==
    [name |-> repr.name, is_user |-> repr.is_user, attributes |-> repr.attributes,
     new_auth |-> repr.new_auth, auth_error |-> None,
     policy |-> Some(policy)]

ActorNew(repr, policy) ==
    [name |-> repr.name, is_user |-> repr.is_user, attributes |-> repr.attributes,
     new_auth |-> repr.new_auth, auth_error |-> repr.auth_error,
     policy |-> Some(policy)]

\* A variant of the Actor comparison that also compares the bound policy.
ActorEq_with_policy(self, other) ==
    /\ ActorNameEq(self.name, other.name)
    /\ self.is_user = other.is_user
    /\ AttributesEq(self.attributes, other.attributes)
    /\ self.policy = other.policy

\* impl PartialEq for Actor
ActorEq(self, other) ==
    /\ ActorNameEq(self.name, other.name)
    /\ self.is_user = other.is_user
    /\ AttributesEq(self.attributes, other.attributes)

\* impl PartialEq<ActorDef> for Actor
ActorEqDef(self, other) ==
    /\ ActorNameEq(self.name, other.name)
    /\ self.is_user = other.is_user
    /\ AttributesEq(self.attributes, other.attributes)

attributes(self) == as_map(self.attributes)

\* A variant of Actor::attribute whose RoleOnly arm lacks the name guard.
attribute_any_name(self, attr_name) ==
    CASE self.attributes.tag = "UserDefined" -> MapGet(self.attributes.map, attr_name)
      [] self.attributes.tag = "RoleOnly" -> Some(self.attributes.role[1])
      [] OTHER -> None

attribute(self, attr_name) ==
    CASE self.attributes.tag = "UserDefined" -> MapGet(self.attributes.map, attr_name)
      [] self.attributes.tag = "RoleOnly" /\ attr_name = "role" -> Some(self.attributes.role[1])
      [] self.attributes.tag = "RoleOnly" -> None
      [] OTHER -> None

name(self) == as_str(self.name)

(* ------------------------------ formatting ----------------------------- *)

\* A variant of Display that renders the attribute bag as Debug does.
Display_with_attrs(self) ==
    [name |-> as_str(self.name), is_user |-> None, attr |-> Some(self.attributes)]

\* impl Display for Actor: the name only.
Display(self) == [name |-> name(self), is_user |-> None, attr |-> None]

\* impl Debug for Actor: name, is_user and the attribute bag.
Debug(self) == [name |-> name(self), is_user |-> Some(self.is_user),
                attr |-> Some(self.attributes)]

\* One emitted log record: level, leading text, the rendered actor argument,
\* the action, the resource and the trailing detail argument (if any).
LogRecord(level, text, actorArg, action, resource, detail) ==
    [level |-> level, text |-> text, actor |-> actorArg, action |-> action,
     resource |-> resource, detail |-> detail]

(* ------------------------------ is_allowed ----------------------------- *)

Ok(b) == [ok |-> TRUE, allowed |-> b, err |-> None]
ErrApiInvalidCredentials(msg) == [ok |-> FALSE, allowed |-> FALSE, err |-> Some(msg)]

\* The outcome of one call: the returned value, the evaluator invocations
\* made during the call, and the log records emitted during the call.
Outcome(ret, calls, log) == [ret |-> ret, calls |-> calls, log |-> log]

\* A variant of the single-user is_allowed that denies an actor with a
\* deferred error.
is_allowed_single_enforcing(self, action, resource) ==
    Outcome(Ok(self.auth_error = None), <<>>, <<>>)

\* #[cfg(not(feature = "multi-user"))]
is_allowed_single(self, action, resource) == Outcome(Ok(TRUE), <<>>, <<>>)

\* Lines 199-203: a deferred credential error is present.
CredentialBranch(self, action, resource, trace) ==
    Outcome(ErrApiInvalidCredentials(self.auth_error[1]),
            <<>>,
            IF trace
            THEN <<LogRecord("trace", "Unable to check access", Display(self),
                             action, resource, Some(self.auth_error[1]))>>
            ELSE <<>>)

\* A variant of the policy branch that propagates the evaluator's failure.
PolicyBranch_propagates(self, action, resource, verdict, trace) ==
    LET call == [policy |-> self.policy[1], actor |-> self,
                 action |-> action, resource |-> resource]
    IN CASE verdict = "OkTrue" ->
              Outcome(Ok(TRUE), <<call>>,
                      IF trace
                      THEN <<LogRecord("trace", "Access granted", Display(self),
                                       action, resource, None)>>
                      ELSE <<>>)
         [] verdict = "OkFalse" ->
              Outcome(Ok(FALSE), <<call>>,
                      IF trace
                      THEN <<LogRecord("trace", "Access denied", Debug(self),
                                       action, resource, None)>>
                      ELSE <<>>)
         [] OTHER ->
              Outcome(ErrApiInvalidCredentials("evaluator error"), <<call>>,
                      <<LogRecord("error", "Unable to check access", Display(self),
                                  action, resource, Some("evaluator error"))>>)

\* Lines 206-226: a policy is bound; policy.is_allowed(self.clone(), ..) is
\* invoked once and answers verdict.
PolicyBranch(self, action, resource, verdict, trace) ==
    LET call == [policy |-> self.policy[1], actor |-> self,
                 action |-> action, resource |-> resource]
    IN CASE verdict = "OkTrue" ->
              Outcome(Ok(TRUE), <<call>>,
                      IF trace
                      THEN <<LogRecord("trace", "Access granted", Display(self),
                                       action, resource, None)>>
                      ELSE <<>>)
         [] verdict = "OkFalse" ->
              Outcome(Ok(FALSE), <<call>>,
                      IF trace
                      THEN <<LogRecord("trace", "Access denied", Debug(self),
                                       action, resource, None)>>
                      ELSE <<>>)
         [] OTHER ->
              Outcome(Ok(FALSE), <<call>>,
                      <<LogRecord("error", "Unable to check access", Display(self),
                                  action, resource, Some("evaluator error"))>>)

\* Lines 227-234: no policy is bound.
MissingPolicyBranch(self, action, resource) ==
    Outcome(Ok(FALSE), <<>>,
            <<LogRecord("error", "Unable to check access", Display(self),
                        action, resource, Some("Internal error: missing policy"))>>)

\* A variant of is_allowed that consults the bound policy before it looks at
\* the deferred error.
is_allowed_multi_policy_first(self, action, resource, verdict, trace) ==
    IF self.policy # None
    THEN PolicyBranch(self, action, resource, verdict, trace)
    ELSE IF self.auth_error # None
         THEN CredentialBranch(self, action, resource, trace)
         ELSE MissingPolicyBranch(self, action, resource)

\* #[cfg(feature = "multi-user")]
\* verdict: what policy.is_allowed answers if it is invoked.
\* trace: whether the Trace level is enabled in the logger.
is_allowed_multi(self, action, resource, verdict, trace) ==
    IF self.auth_error # None
    THEN CredentialBranch(self, action, resource, trace)
    ELSE IF self.policy # None
         THEN PolicyBranch(self, action, resource, verdict, trace)
         ELSE MissingPolicyBranch(self, action, resource)

(* -------------------------------- state -------------------------------- *)

VARIABLES
    multi_user,   \* whether the build has the "multi-user" feature
    def,          \* the current template: None or Some(ActorDef)
    def_ctor,     \* the constructor call that made the current template
    actor,        \* the current actor: None or Some(Actor)
    origin,       \* the constructor call that made the current actor
    res           \* what the last call returned to its caller: None or Some(..)

vars == <<multi_user, def, def_ctor, actor, origin, res>>

\* A record of a template constructor call.
CtorCall(ctor, n, role, attrs) ==
    [ctor |-> ctor, name |-> n, role |-> role, attrs |-> attrs]

NoCtor == CtorCall("none", None, None, None)

\* A record of an actor constructor call: the constructor, the template it was
\* given (if any), how that template was made, and the raw details (if any).
NoOrigin == [ctor |-> "none", repr |-> None, via |-> NoCtor]

Init ==
    /\ multi_user \in BOOLEAN
    /\ def = None
    /\ def_ctor = NoCtor
    /\ actor = None
    /\ origin = NoOrigin
    /\ res = None

(* ------------------------------- actions ------------------------------- *)

Anonymous ==
    /\ def' = Some(anonymous)
    /\ def_ctor' = CtorCall("anonymous", None, None, None)
    /\ res' = None
    /\ UNCHANGED <<multi_user, actor, origin>>

System ==
    \E n \in NameTexts, r \in Roles :
        /\ def' = Some(system(n, r))
        /\ def_ctor' = CtorCall("system", Some(n), Some(r), None)
        /\ res' = None
        /\ UNCHANGED <<multi_user, actor, origin>>

User ==
    \E n \in NameTexts, m \in AttrMaps, a \in {None} \cup {Some(p) : p \in AuthPayloads} :
        /\ def' = Some(user(n, m, a))
        /\ def_ctor' = CtorCall("user", Some(n), None, Some(m))
        /\ res' = None
        /\ UNCHANGED <<multi_user, actor, origin>>

WithAuthError ==
    /\ def # None
    /\ \E msg \in ErrorMsgs : def' = Some(with_auth_error(def[1], msg))
    /\ res' = None
    /\ UNCHANGED <<multi_user, def_ctor, actor, origin>>

New ==
    /\ def # None
    /\ \E p \in Policies :
        /\ actor' = Some(ActorNew(def[1], p))
        /\ origin' = [ctor |-> "new", repr |-> def, via |-> def_ctor]
    /\ res' = None
    /\ UNCHANGED <<multi_user, def, def_ctor>>

TestFromDef ==
    /\ def # None
    /\ actor' = Some(test_from_def(def[1]))
    /\ origin' = [ctor |-> "test_from_def", repr |-> def, via |-> def_ctor]
    /\ res' = None
    /\ UNCHANGED <<multi_user, def, def_ctor>>

TestFromDetails ==
    \E n \in NameTexts, m \in AttrMaps :
        /\ actor' = Some(test_from_details(n, m))
        /\ origin' = [ctor |-> "test_from_details", repr |-> None,
                      via |-> CtorCall("details", Some(n), None, Some(m))]
        /\ res' = None
        /\ UNCHANGED <<multi_user, def, def_ctor>>

\* The observation of a call on the current actor.
Call(op, action, resource, verdict, attr_name, out) ==
    [op |-> op, action |-> action, resource |-> resource, verdict |-> verdict,
     attr_name |-> attr_name, out |-> out]

IsAllowed ==
    /\ actor # None
    /\ \E a \in ActionNames, r \in ResourceNames, v \in Verdicts, t \in BOOLEAN :
        res' = Some(Call("is_allowed", a, r, v, None,
                         IF multi_user
                         THEN is_allowed_multi(actor[1], a, r, v, t)
                         ELSE is_allowed_single(actor[1], a, r)))
    /\ UNCHANGED <<multi_user, def, def_ctor, actor, origin>>

AttributesCall ==
    /\ actor # None
    /\ res' = Some(Call("attributes", None, None, None, None, attributes(actor[1])))
    /\ UNCHANGED <<multi_user, def, def_ctor, actor, origin>>

AttributeCall ==
    /\ actor # None
    /\ \E n \in AttrQueries :
        res' = Some(Call("attribute", None, None, None, Some(n), attribute(actor[1], n)))
    /\ UNCHANGED <<multi_user, def, def_ctor, actor, origin>>

Next ==
    \/ Anonymous
    \/ System
    \/ User
    \/ WithAuthError
    \/ New
    \/ TestFromDef
    \/ TestFromDetails
    \/ IsAllowed
    \/ AttributesCall
    \/ AttributeCall

Spec == Init /\ [][Next]_vars

(* ------------------------------ properties ----------------------------- *)

\* The last call was is_allowed on the current actor.
Checked == res # None /\ res[1].op = "is_allowed"

BuiltBy(ctor) == actor # None /\ origin.ctor = ctor

\* C1: in the multi-user build, is_allowed on an actor made by Actor::new from
\* a template carrying the deferred error text m returns
\* Err(ApiInvalidCredentials(m)) with that text, whatever the policy, action
\* and resource, and the policy evaluator is not invoked during the call.
C1_DeferredErrorSurfaced ==
    (multi_user /\ Checked /\ BuiltBy("new") /\ origin.repr[1].auth_error # None)
        => /\ res[1].out.ret = ErrApiInvalidCredentials(origin.repr[1].auth_error[1])
           /\ res[1].out.calls = <<>>

C1_Witness ==
    /\ multi_user /\ Checked /\ BuiltBy("new")
    /\ origin.repr[1].auth_error = Some("expired")
    /\ res[1].verdict = "OkTrue"

\* C2: in the multi-user build, is_allowed on an actor with no deferred error
\* and a bound policy invokes the evaluator of that policy exactly once, with
\* an actor equal to itself and the same action and resource, and returns
\* Ok(b) when the evaluator answers Ok(b) and Ok(false) when it fails; it
\* never returns Err.
C2_DelegatesToPolicy ==
    (multi_user /\ Checked /\ actor[1].auth_error = None /\ actor[1].policy # None)
        => /\ Len(res[1].out.calls) = 1
           /\ res[1].out.calls[1].policy = actor[1].policy[1]
           /\ ActorEq(res[1].out.calls[1].actor, actor[1])
           /\ res[1].out.calls[1].action = res[1].action
           /\ res[1].out.calls[1].resource = res[1].resource
           /\ res[1].out.ret.ok
           /\ res[1].out.ret = Ok(res[1].verdict = "OkTrue")

C2_Witness ==
    /\ multi_user /\ Checked /\ actor[1].auth_error = None /\ actor[1].policy # None
    /\ res[1].verdict = "Err"
    /\ res[1].out.ret = Ok(FALSE)

\* C3: in the multi-user build, is_allowed on an actor made by test_from_def
\* (from any template) or by test_from_details returns Ok(false) without
\* invoking an evaluator.
C3_TestActorsDenied ==
    (multi_user /\ Checked /\ (BuiltBy("test_from_def") \/ BuiltBy("test_from_details")))
        => /\ res[1].out.ret = Ok(FALSE)
           /\ res[1].out.calls = <<>>

C3_Witness ==
    /\ multi_user /\ Checked /\ BuiltBy("test_from_def")
    /\ origin.repr[1].auth_error # None
    /\ res[1].out.ret = Ok(FALSE)

\* C4: in the build without the multi-user feature, is_allowed returns
\* Ok(true) for every actor, action and resource, with or without a deferred
\* error or a bound policy, and the evaluator is not invoked.
C4_DisabledAlwaysAllows ==
    (~multi_user /\ Checked)
        => /\ res[1].out.ret = Ok(TRUE)
           /\ res[1].out.calls = <<>>

C4_Witness ==
    /\ ~multi_user /\ Checked
    /\ actor[1].auth_error # None
    /\ actor[1].policy # None
    /\ res[1].out.ret = Ok(TRUE)

\* Two templates have the same identity value, is_user and attribute bag.
SameIdentity(a, b) ==
    a.name = b.name /\ a.is_user = b.is_user /\ a.attributes = b.attributes

\* C5: an actor made by Actor::new from a template T equals the actor made
\* from T with any other policy, equals T under the Actor-vs-template
\* comparison, and equals (both ways of comparing) what is built from any
\* template that differs from T only in the deferred error or the refreshed
\* credential.
C5_EqualityIgnoresTransient ==
    BuiltBy("new") =>
        /\ ActorEqDef(actor[1], origin.repr[1])
        /\ \A p \in Policies :
              /\ ActorEq(actor[1], ActorNew(origin.repr[1], p))
              /\ ActorEq(ActorNew(origin.repr[1], p), actor[1])
        /\ (def # None /\ SameIdentity(def[1], origin.repr[1])) =>
              /\ ActorEqDef(actor[1], def[1])
              /\ \A p \in Policies :
                    /\ ActorEq(actor[1], ActorNew(def[1], p))
                    /\ ActorEq(ActorNew(def[1], p), actor[1])

C5_Witness ==
    /\ BuiltBy("new")
    /\ def # None /\ SameIdentity(def[1], origin.repr[1])
    /\ def[1].auth_error # origin.repr[1].auth_error
    /\ def[1].new_auth # origin.repr[1].new_auth
    /\ ActorEq(actor[1], ActorNew(def[1], CHOOSE p \in Policies : Some(p) # actor[1].policy))

\* C6: two identity values are equal exactly when their text is equal,
\* whatever their storage tags, so that an actor and a template that differ
\* only in the tag of the name compare equal.
C6_NameEqualityByText ==
    (actor # None /\ def # None) =>
        /\ ActorNameEq(actor[1].name, def[1].name)
              <=> (as_str(actor[1].name) = as_str(def[1].name))
        /\ ( /\ as_str(actor[1].name) = as_str(def[1].name)
             /\ actor[1].is_user = def[1].is_user
             /\ AttributesEq(actor[1].attributes, def[1].attributes) )
              => ActorEqDef(actor[1], def[1])

\* C7 as stated: every actor made from a template with deferred error text m,
\* by Actor::new or by test_from_def, holds the deferred error text m.
C7_ErrorCarriedByAllConstructors ==
    ((BuiltBy("new") \/ BuiltBy("test_from_def")) /\ origin.repr[1].auth_error # None)
        => actor[1].auth_error = origin.repr[1].auth_error

\* C7 as amended: an actor made by Actor::new holds exactly the deferred error
\* of its template (and is_allowed surfaces it in the multi-user build); an
\* actor made by test_from_def holds no deferred error.
C7_ErrorCarriedByNew ==
    /\ BuiltBy("new") =>
          /\ actor[1].auth_error = origin.repr[1].auth_error
          /\ (multi_user /\ Checked /\ origin.repr[1].auth_error # None)
                => res[1].out.ret.err = origin.repr[1].auth_error
    /\ BuiltBy("test_from_def") => actor[1].auth_error = None

C7_Witness ==
    /\ BuiltBy("new")
    /\ origin.repr[1].auth_error = Some("bad token")
    /\ actor[1].auth_error = Some("bad token")
    /\ multi_user /\ Checked

\* The attribute map the constructor call c promises.
PromisedMap(c) ==
    CASE c.ctor = "anonymous" -> EmptyMap
      [] c.ctor = "system" -> [k \in {"role"} |-> c.role[1]]
      [] OTHER -> c.attrs[1]

\* C8: attribute(n) is the lookup of n in attributes(); attributes() is empty
\* for an actor made from anonymous(), exactly {"role": role} for one made from
\* system(name, role), and exactly attrs for one made from user(name, attrs, _)
\* or test_from_details(name, attrs).
C8_AttributeLookup ==
    /\ (res # None /\ res[1].op = "attribute") =>
          /\ res[1].out = MapGet(attributes(actor[1]), res[1].attr_name[1])
          /\ res[1].out = MapGet(PromisedMap(origin.via), res[1].attr_name[1])
    /\ (res # None /\ res[1].op = "attributes") =>
          res[1].out = PromisedMap(origin.via)

C8_Witness ==
    /\ res # None /\ res[1].op = "attribute"
    /\ origin.via.ctor = "system"
    /\ res[1].attr_name = Some("team")
    /\ res[1].out = None

\* C9: every log record emitted by is_allowed holds the actor name, the action
\* and the resource, and holds the attribute bag only when it records a policy
\* denial (the evaluator was asked and answered Ok(false)).
C9_LogContents ==
    Checked =>
        \A i \in 1..Len(res[1].out.log) :
            LET rec == res[1].out.log[i]
            IN /\ rec.actor.name = as_str(actor[1].name)
               /\ rec.action = res[1].action
               /\ rec.resource = res[1].resource
               /\ rec.actor.attr # None =>
                     /\ Len(res[1].out.calls) = 1
                     /\ res[1].verdict = "OkFalse"
                     /\ res[1].out.ret = Ok(FALSE)

C9_Witness ==
    /\ Checked
    /\ Len(res[1].out.log) = 1
    /\ res[1].out.log[1].actor.attr = Some(actor[1].attributes)
    /\ actor[1].attributes.tag = "UserDefined"
    /\ res[1].verdict = "OkFalse"

\* C10: an actor with no bound policy has neither a deferred error nor a
\* refreshed credential, so is_allowed on it never returns Err.
C10_PolicylessIsClean ==
    (actor # None /\ actor[1].policy = None)
        => /\ actor[1].auth_error = None
           /\ actor[1].new_auth = None
           /\ Checked => res[1].out.ret.ok

C10_Witness ==
    /\ BuiltBy("test_from_def")
    /\ actor[1].policy = None
    /\ origin.repr[1].auth_error # None
    /\ origin.repr[1].new_auth # None
    /\ multi_user /\ Checked

====
